---- MODULE Spec2Model ----
(***************************************************************************)
(* Photo Hub of the Dashie integration (custom_components/dashie):         *)
(* the catalog (photo_sources, photos), the originals and thumbnails      *)
(* directories, and the PhotoHub operations built on them.                 *)
(*                                                                         *)
(* Strings are modelled as sequences of tokens.  A token stands for a run  *)
(* of characters of one class: "a", "jpg", "JPG", "txt", "h1" ... are      *)
(* alphanumeric runs, "." "_" "/" "#" are single characters.               *)
(***************************************************************************)
EXTENDS Integers, Sequences, FiniteSets, TLC

VARIABLES
    initialized,    \* PhotoHub._initialized
    photo_sources,  \* table photo_sources: set of rows
    photos,         \* table photos: function photo id -> row
    files,          \* the filesystem: function resolved path -> bytes
    thumbs,         \* thumbnails dir: ids i with a file "<i>_thumb.jpg"
    now,            \* CURRENT_TIMESTAMP, in whole seconds
    storage_ok,     \* FALSE while opening a file for writing raises OSError
    next_uuid,      \* number of uuid4() values drawn so far
    uploaded,       \* history: id -> the bytes add_photo was given for it
    last,           \* the latest call and what it returned
    jobs,           \* request -> the executor job it waits for
    conn,           \* self._db seen by the jobs: rows and committed rows
    race,           \* a delete_photo and a get_thumbnail_path of one id, step by step
    boot,           \* operations begun on the hub, each at its step of the lazy initialization
    timers,         \* hass.data[DOMAIN]["timers"]: timer id -> timer
    entries,        \* the order of that dict's entries; NoTimer where one was popped
    ticks,          \* the _timer_tick calls, each at its place in the loop
    removals,       \* ids whose remove_after_delay task is asleep
    hidden,         \* ids hideTimer was sent for
    timer_uuid,     \* number of timer ids made so far
    tcall,          \* the latest timer service call and what it did
    consecutive_failures,   \* DashieCoordinator._consecutive_failures
    update_interval,        \* DashieCoordinator.update_interval, in seconds
    poll,           \* the coordinator's poll: where it is, how the latest ended
    media_files,    \* the files on disk in and beside the media directory: resolved paths
    mlast           \* the latest request for a media image and its response

vars == <<initialized, photo_sources, photos, files, thumbs, now, storage_ok, next_uuid, uploaded, last,
          jobs, conn, race, boot,
          timers, entries, ticks, removals, hidden, timer_uuid, tcall,
          consecutive_failures, update_interval, poll, media_files, mlast>>

\* the state beside the hub's and the executor jobs'
\* the state of the timer service
timer_vars == <<timers, entries, ticks, removals, hidden, timer_uuid, tcall>>

\* the state of the coordinator
coordinator_vars == <<consecutive_failures, update_interval, poll>>

\* the state of the media views
media_vars == <<media_files, mlast>>

side_vars == <<race, boot, timer_vars, coordinator_vars, media_vars>>

----------------------------------------------------------------------------
(* Bounds of the model *)

\* uuid4() values drawn in one behaviour
MaxUuid == 2

\* seconds the clock may advance
MaxClock == 1

\* largest limit / offset a listing request carries
MaxLimit == 2

MaxOffset == 2

\* entries of the large archive, one more than the ids import_zip returns;
\* also the uuid4() values its import may draw
MaxBulk == 11

\* timer ids made in one behaviour
MaxTimerIds == 3

\* longest duration, in seconds, that start_timer is given
MaxDuration == 1

\* steps of time.time() in one second
Resolution == 2

\* failed polls in a row
MaxFailures == 40

----------------------------------------------------------------------------
(* Values *)

\* SQL NULL / Python None for a nullable integer; Some(v) is the value v
NULL == <<>>

Some(v) == <<v>>

\* Python None where a photo id is expected
NoId == [head |-> "none", tail |-> 0]

\* Python None where a path is expected
NoPath == <<>>

\* the first 8 hex characters of a uuid4: two values, so that two ids can agree
\* on them or differ
Heads == {"h1", "h2"}

\* str(uuid.uuid4()): the first 8 characters and the rest
Uuid(h, n) == [head |-> h, tail |-> n]

AllIds == {Uuid(h, n) : h \in Heads, n \in 1..MaxUuid}

\* image bytes: "A" decodes as an image and carries an EXIF capture time,
\* "X" does not decode
Blobs == {"A", "X"}

Decodable(data) == data = "A"

----------------------------------------------------------------------------
(* photo_hub.py: constants and string helpers *)

PHOTOS_DIR == <<"config", "/", "dashie", "/", "photos">>

SUPPORTED_EXTENSIONS ==
    { <<".", "jpg">>, <<".", "jpeg">>, <<".", "png">>,
      <<".", "webp">>, <<".", "gif">>, <<".", "heic">> }

\* str.isalnum() on a token
IsAlnum(c) == c \in {"a", "b", "jpg", "JPG", "txt", "h1", "h2", "unnamed", "upload"}

\* str.lower() on a token
LowerTok(c) == IF c = "JPG" THEN "jpg" ELSE c

Lower(s) == [i \in 1..Len(s) |-> LowerTok(s[i])]

\* the index of the last occurrence of token c in s, 0 when there is none
LastIndexOf(s, c) ==
    LET hits == {i \in 1..Len(s) : s[i] = c}
    IN  IF hits = {} THEN 0 ELSE CHOOSE i \in hits : \A j \in hits : j <= i

\* Path(name).name : the last component
BaseName(s) ==
    LET k == LastIndexOf(s, "/")
    IN  SubSeq(s, k + 1, Len(s))

\* Path(name).suffix : from the last dot of the last component, when that dot
\* is neither its first nor its last character
Suffix(s) ==
    LET b == BaseName(s)
        i == LastIndexOf(b, ".")
    IN  IF 1 < i /\ i < Len(b) THEN SubSeq(b, i, Len(b)) ELSE <<>>

KeepChar(c) == IsAlnum(c) \/ c \in {".", "_", "-", " "}

\* PhotoHub._sanitize_filename
SanitizeFilename(filename) ==
    LET safe == SelectSeq(filename, KeepChar)
    IN  IF safe = <<>> THEN <<"unnamed">> ELSE safe

\* Path(s).parts: the components of a path string, split at "/"
RECURSIVE Parts(_)
Parts(s) ==
    IF s = <<>> THEN <<>>
    ELSE LET ks == {i \in 1..Len(s) : s[i] = "/"}
         IN  IF ks = {} THEN <<s>>
             ELSE LET k == CHOOSE i \in ks : \A j \in ks : i <= j
                  IN  <<SubSeq(s, 1, k - 1)>> \o Parts(SubSeq(s, k + 1, Len(s)))

\* the directory entry the operating system reaches through a list of
\* components: ".." steps to the parent
RECURSIVE Walk(_, _)
Walk(done, todo) ==
    IF todo = <<>> THEN done
    ELSE IF Head(todo) = <<"..">>
         THEN Walk(SubSeq(done, 1, Len(done) - 1), Tail(todo))
         ELSE Walk(Append(done, Head(todo)), Tail(todo))

Resolve(path) == Walk(<<>>, Parts(path))

\* base / rel
Join(base, rel) == base \o <<"/">> \o rel

\* whether a resolved path lies under the originals root
IsUnder(resolved, root) ==
    /\ Len(resolved) > Len(Parts(root))
    /\ SubSeq(resolved, 1, Len(Parts(root))) = Parts(root)

\* Path.exists(), of a resolved path
Exists(fs, resolved) == resolved \in DOMAIN fs

\* Image.open(path).size
ImageSize(data) ==
    IF Decodable(data) THEN [width |-> Some(4), height |-> Some(3)]
    ELSE [width |-> NULL, height |-> NULL]

\* the EXIF DateTimeOriginal of the bytes, as a second count
ExifTakenAt(data) == IF Decodable(data) THEN Some(0) ELSE NULL

----------------------------------------------------------------------------
(* Inputs of the operations *)

\* file names given to add_photo: a.jpg, a.JPG, #.jpg, a.txt
FileNames ==
    { <<"a", ".", "jpg">>, <<"a", ".", "JPG">>,
      <<"#", ".", "jpg">>, <<"a", ".", "txt">> }

\* source ids given to add_photo: a built-in source, and one that names no
\* source and is a parent-directory segment
SourceIds == {"imported", ".."}

----------------------------------------------------------------------------
(* PhotoHub._init_database and the lazy initialisation of every operation *)

DefaultSources ==
    { [id |-> "imported", type |-> "imported", name |-> "Imported Photos",
       created_at |-> now],
      [id |-> "local", type |-> "local", name |-> "Local Folder",
       created_at |-> now] }

\* _init_database with INSERT OR REPLACE in place of INSERT OR IGNORE
InitDatabaseReplacing(ps) ==
    {r \in ps : \A d \in DefaultSources : r.id # d.id} \cup DefaultSources

\* INSERT OR IGNORE INTO photo_sources: a row is added unless its id is taken
InitDatabase(ps) ==
    ps \cup {d \in DefaultSources : \A r \in ps : r.id # d.id}

\* photo_sources once "if not self._initialized: await self.async_initialize()"
\* has run
SourcesNow == IF initialized THEN photo_sources ELSE InitDatabase(photo_sources)

SourceExists(sid) == \E r \in SourcesNow : r.id = sid

----------------------------------------------------------------------------
(* PhotoHub.add_photo, on a catalog and filesystem st =                     *)
(* [photos, files, uuid, uploaded]; the result adds id and raised.          *)

\* f"{photo_id[:8]}_{safe_filename}"
LocalFilename(photo_id, safe_filename) == <<photo_id.head, "_">> \o safe_filename

\* f"{source_id}/{local_filename}"
RelativePath(source_id, local_filename) == <<source_id, "/">> \o local_filename

\* self._photos_dir / relative_path for every relative path add_photo can
\* build, resolved; Stored is a constant table of them
StoredNames == {<<"a", ".", "jpg">>, <<"a", ".", "JPG">>, <<"upload", ".", "jpg">>}

StoredPaths ==
    {RelativePath(s, LocalFilename(Uuid(h, 0), n)) :
        s \in {"imported", "local", ".."}, h \in Heads, n \in StoredNames}

Stored == [p \in StoredPaths |-> Resolve(Join(PHOTOS_DIR, p))]

\* the resolved location of self._photos_dir / relative_path
Original(relative_path) ==
    IF relative_path \in StoredPaths THEN Stored[relative_path]
    ELSE Resolve(Join(PHOTOS_DIR, relative_path))

\* sqlite3.connect(...) is followed by no PRAGMA that turns foreign keys on:
\* SQLite then parses the FOREIGN KEY clauses of the schema without enforcing
\* them
ForeignKeysEnforced == FALSE

\* whether the INSERT INTO photos raises sqlite3.IntegrityError
InsertRaises(st, photo_id, source_id) ==
    \/ photo_id \in DOMAIN st.photos
    \/ ForeignKeysEnforced /\ ~SourceExists(source_id)

NewRow(photo_id, source_id, filename, relative_path, file_data) ==
    [ id |-> photo_id, source_id |-> source_id, filename |-> filename,
      local_path |-> relative_path,
      width |-> ImageSize(file_data).width,
      height |-> ImageSize(file_data).height,
      taken_at |-> ExifTakenAt(file_data),
      created_at |-> now ]

Extend(f, k, v) == [x \in DOMAIN f \cup {k} |-> IF x = k THEN v ELSE f[x]]

AddPhoto(st, file_data, filename, source_id, head) ==
    LET photo_id == Uuid(head, st.uuid + 1)
        safe_filename == SanitizeFilename(filename)
        ext == Lower(Suffix(safe_filename))
        local_filename == LocalFilename(photo_id, safe_filename)
        relative_path == RelativePath(source_id, local_filename)
        local_path == Original(relative_path)
        drawn == [st EXCEPT !.uuid = st.uuid + 1]
        written == [drawn EXCEPT !.files = Extend(st.files, local_path, file_data)]
    IN  IF ext \notin SUPPORTED_EXTENSIONS
        THEN [st |-> st, id |-> NoId, raised |-> FALSE, wrote |-> NoPath]
        ELSE IF ~storage_ok
        THEN [st |-> drawn, id |-> NoId, raised |-> TRUE, wrote |-> NoPath]
        ELSE IF InsertRaises(st, photo_id, source_id)
        THEN [st |-> written, id |-> NoId, raised |-> TRUE, wrote |-> local_path]
        ELSE [st |-> [written EXCEPT
                        !.photos = Extend(st.photos, photo_id,
                                          NewRow(photo_id, source_id, filename,
                                                 relative_path, file_data)),
                        !.uploaded = Extend(st.uploaded, photo_id, file_data)],
              id |-> photo_id, raised |-> FALSE, wrote |-> local_path]

\* the catalog and filesystem an operation starts from
Store == [photos |-> photos, files |-> files, uuid |-> next_uuid, uploaded |-> uploaded]

----------------------------------------------------------------------------
(* Queries *)

\* PhotoHub.get_photo: the row, or None
HasPhoto(ph, photo_id) == photo_id \in DOMAIN ph

\* PhotoHub.get_photo_path
GetPhotoPath(ph, fs, photo_id) ==
    IF ~HasPhoto(ph, photo_id) THEN NoPath
    ELSE LET path == Original(ph[photo_id].local_path)
         IN  IF Exists(fs, path) THEN path ELSE NoPath

\* PhotoHub.get_thumbnail_path and _generate_thumbnail: whether a thumbnail is
\* returned, and whether one was generated for it
ThumbCached(th, photo_id) == photo_id \in th

\* thumbnail generation that does not look for the cached file first
ThumbRegenerated(ph, fs, th, photo_id) ==
    LET photo_path == GetPhotoPath(ph, fs, photo_id)
    IN  /\ photo_path # NoPath
        /\ Decodable(fs[photo_path])
        /\ storage_ok

ThumbGenerated(ph, fs, th, photo_id) ==
    LET photo_path == GetPhotoPath(ph, fs, photo_id)
    IN  /\ ~ThumbCached(th, photo_id)
        /\ photo_path # NoPath
        /\ Decodable(fs[photo_path])
        /\ storage_ok

GetThumbnailPath(ph, fs, th, photo_id) ==
    ThumbCached(th, photo_id) \/ ThumbGenerated(ph, fs, th, photo_id)

\* a > b for nullable integers as SQLite orders them: NULL is below every value
NullableGreater(a, b) == a # NULL /\ (b = NULL \/ a[1] > b[1])

\* ORDER BY taken_at DESC, created_at DESC: r1 must come before r2
SortsBefore(r1, r2) ==
    \/ NullableGreater(r1.taken_at, r2.taken_at)
    \/ r1.taken_at = r2.taken_at /\ r1.created_at > r2.created_at

\* WHERE 1=1 [AND source_id = ?]: the filter applies when source_id is truthy
Matching(ph, source_id) ==
    {i \in DOMAIN ph : source_id = "" \/ ph[i].source_id = source_id}

Orders(S) ==
    {s \in [1..Cardinality(S) -> S] : \A i, j \in 1..Cardinality(S) : s[i] = s[j] => i = j}

\* the row orders SQLite may produce: rows that compare equal come in any order
SortedListings(ph, source_id) ==
    {s \in Orders(Matching(ph, source_id)) :
        \A i, j \in 1..Len(s) : i < j => ~SortsBefore(ph[s[j]], ph[s[i]])}

\* ORDER BY RANDOM()
RandomListings(ph, source_id) == Orders(Matching(ph, source_id))

Min(a, b) == IF a < b THEN a ELSE b

\* LIMIT ? OFFSET ?
LimitOffset(s, limit, offset) == SubSeq(s, offset + 1, Min(offset + limit, Len(s)))

\* PhotoHub.get_photo_count
GetPhotoCount(ph, source_id) ==
    IF source_id # ""
    THEN Cardinality({i \in DOMAIN ph : ph[i].source_id = source_id})
    ELSE Cardinality(DOMAIN ph)

\* PhotoHub.get_sources: photo_sources LEFT JOIN photos, grouped by source,
\* COUNT(p.id) counting the joined rows whose photo id is not NULL
LeftJoin(ps, ph) ==
    {[ps |-> x[1], p |-> Some(x[2])] :
        x \in {y \in ps \X DOMAIN ph : ph[y[2]].source_id = y[1].id}}
    \cup {[ps |-> r, p |-> NULL] : r \in {q \in ps : \A k \in DOMAIN ph : ph[k].source_id # q.id}}

\* get_sources with COUNT(*) in place of COUNT(p.id)
GetSourcesCountStar(ps, ph) ==
    {[id |-> r.id, type |-> r.type, name |-> r.name, created_at |-> r.created_at,
      photo_count |-> Cardinality({j \in LeftJoin(ps, ph) : j.ps = r})] :
        r \in ps}

\* PhotoHub.get_sources: one row per source with the number of photos joined
\* to it
GetSources(ps, ph) ==
    {[id |-> r.id, type |-> r.type, name |-> r.name, created_at |-> r.created_at,
      photo_count |-> Cardinality({j \in LeftJoin(ps, ph) : j.ps = r /\ j.p # NULL})] :
        r \in ps}

----------------------------------------------------------------------------
(* PhotoHub.import_zip *)

\* an archive entry: its name, its bytes, and whether zf.read(name) succeeds
\* (it raises on a damaged entry, a CRC mismatch for example)
Entry(name, data, readable) == [name |-> name, data |-> data, readable |-> readable]

\* a.jpg (an image), a.txt, a.JPG (bytes that are no image)
ZipMixed ==
    << Entry(<<"a", ".", "jpg">>, "A", TRUE),
       Entry(<<"a", ".", "txt">>, "A", TRUE),
       Entry(<<"a", ".", "JPG">>, "X", TRUE) >>

\* a.JPG (damaged entry), d/, d/a.jpg (an image), a.txt
ZipDamaged ==
    << Entry(<<"a", ".", "JPG">>, "A", FALSE),
       Entry(<<"d", "/">>, "X", TRUE),
       Entry(<<"d", "/", "a", ".", "jpg">>, "A", TRUE),
       Entry(<<"a", ".", "txt">>, "X", TRUE) >>

\* #.jpg (an image), a.jpg (an image)
ZipOddName ==
    << Entry(<<"#", ".", "jpg">>, "A", TRUE),
       Entry(<<"a", ".", "jpg">>, "A", TRUE) >>

\* a.jpg, a.JPG, a.jpg, ... : MaxBulk images
ZipLarge ==
    [k \in 1..MaxBulk |->
        Entry(IF k % 2 = 1 THEN <<"a", ".", "jpg">> ELSE <<"a", ".", "JPG">>, "A", TRUE)]

\* the uploads: archives that open, bytes zipfile.ZipFile cannot open, and
\* an upload of zero bytes, which it cannot open either
Archives ==
    { [opens |-> TRUE, zero_bytes |-> FALSE, entries |-> ZipMixed],
      [opens |-> TRUE, zero_bytes |-> FALSE, entries |-> ZipDamaged],
      [opens |-> TRUE, zero_bytes |-> FALSE, entries |-> ZipOddName],
      [opens |-> TRUE, zero_bytes |-> FALSE, entries |-> <<>>],
      [opens |-> FALSE, zero_bytes |-> FALSE, entries |-> <<>>],
      [opens |-> FALSE, zero_bytes |-> TRUE, entries |-> <<>>] }

IsDirectoryName(name) == name # <<>> /\ name[Len(name)] = "/"

SupportedName(name) == Lower(Suffix(name)) \in SUPPORTED_EXTENSIONS

\* _extract_and_import: the three lists after the entries es, in archive order
RECURSIVE ExtractAndImport(_, _)
ExtractAndImport(es, acc) ==
    IF es = <<>> THEN acc
    ELSE LET e == Head(es)
         IN  ExtractAndImport(Tail(es),
                IF IsDirectoryName(e.name) THEN acc
                ELSE IF ~SupportedName(e.name)
                THEN [acc EXCEPT !.skipped = Append(@, e.name)]
                ELSE IF e.readable
                THEN [acc EXCEPT !.imported =
                        Append(@, [filename |-> BaseName(e.name), data |-> e.data])]
                ELSE [acc EXCEPT !.errors = Append(@, e.name)])

Extracted(archive) ==
    ExtractAndImport(archive.entries,
                     [imported |-> <<>>, skipped |-> <<>>, errors |-> <<>>])

\* the head of the n-th uuid4() of the behaviour
HeadOf(heads, n) == IF n \in DOMAIN heads THEN heads[n] ELSE "h1"

\* number of ids import_zip returns
PhotoIdsReturned == 10

\* "for item in imported: photo_id = await self.add_photo(...)": the loop ends
\* at the first add_photo that raises. heads[n] is the head of the n-th uuid4()
\* of the behaviour.
\* the admission loop putting each new id in front of the ids before it
RECURSIVE AddImportedInFront(_, _, _, _)
AddImportedInFront(items, k, heads, acc) ==
    IF k > Len(items) THEN acc
    ELSE LET r == AddPhoto(acc.st, items[k].data, items[k].filename, "imported",
                           HeadOf(heads, acc.st.uuid + 1))
         IN  IF r.raised
             THEN [st |-> r.st, added_ids |-> acc.added_ids, raised |-> TRUE]
             ELSE AddImportedInFront(items, k + 1, heads,
                    [st |-> r.st,
                     added_ids |-> IF r.id # NoId THEN <<r.id>> \o acc.added_ids
                                   ELSE acc.added_ids,
                     raised |-> FALSE])

RECURSIVE AddImported(_, _, _, _)
AddImported(items, k, heads, acc) ==
    IF k > Len(items) THEN acc
    ELSE LET r == AddPhoto(acc.st, items[k].data, items[k].filename, "imported",
                           HeadOf(heads, acc.st.uuid + 1))
         IN  IF r.raised
             THEN [st |-> r.st, added_ids |-> acc.added_ids, raised |-> TRUE]
             ELSE AddImported(items, k + 1, heads,
                    [st |-> r.st,
                     added_ids |-> IF r.id # NoId THEN Append(acc.added_ids, r.id)
                                   ELSE acc.added_ids,
                     raised |-> FALSE])

ImportZip(st, archive, heads) ==
    IF ~archive.opens
    THEN [st |-> st, raised |-> TRUE, imported |-> 0, skipped |-> 0,
          errors |-> <<>>, photo_ids |-> <<>>]
    ELSE LET x == Extracted(archive)
             a == AddImported(x.imported, 1, heads,
                              [st |-> st, added_ids |-> <<>>, raised |-> FALSE])
         IN  [st |-> a.st, raised |-> a.raised,
              imported |-> Len(a.added_ids), skipped |-> Len(x.skipped),
              errors |-> x.errors,
              photo_ids |-> SubSeq(a.added_ids, 1, Min(PhotoIdsReturned, Len(a.added_ids)))]

----------------------------------------------------------------------------
(* PhotoHub.scan_local_folder *)

\* a directory entry: its path, its bytes, and whether it is a regular file
DirEntry(name, data, is_file) == [name |-> name, data |-> data, is_file |-> is_file]

\* f/a.jpg, f/a.txt, f/#.jpg and a subdirectory f/b.jpg
FolderMixed ==
    << DirEntry(<<"f", "/", "a", ".", "jpg">>, "A", TRUE),
       DirEntry(<<"f", "/", "a", ".", "txt">>, "A", TRUE),
       DirEntry(<<"f", "/", "#", ".", "jpg">>, "A", TRUE),
       DirEntry(<<"f", "/", "b", ".", "jpg">>, "A", FALSE) >>

\* g/a.JPG, g/a.jpg
FolderTwo ==
    << DirEntry(<<"g", "/", "a", ".", "JPG">>, "X", TRUE),
       DirEntry(<<"g", "/", "a", ".", "jpg">>, "A", TRUE) >>

\* the folders scanned, each in the order iterdir() lists it; exists is
\* folder.exists()
Folders ==
    { [exists |-> TRUE, entries |-> FolderMixed],
      [exists |-> TRUE, entries |-> FolderTwo],
      [exists |-> FALSE, entries |-> <<>>] }

\* _find_photo_by_path looking the whole path up, not its last component
FindPhotoByWholePath(ph, name) ==
    \E i \in DOMAIN ph : ph[i].filename = name /\ ph[i].source_id = "local"

\* PhotoHub._find_photo_by_path: whether a row has this filename under 'local'
FindPhotoByPath(ph, name) ==
    \E i \in DOMAIN ph : ph[i].filename = BaseName(name) /\ ph[i].source_id = "local"

RECURSIVE ScanEntries(_, _, _, _)
ScanEntries(es, k, heads, acc) ==
    IF k > Len(es) THEN acc
    ELSE LET e == es[k]
         IN  IF \/ ~e.is_file
                \/ ~SupportedName(e.name)
                \/ FindPhotoByPath(acc.st.photos, e.name)
             THEN ScanEntries(es, k + 1, heads, acc)
             ELSE LET r == AddPhoto(acc.st, e.data, BaseName(e.name), "local",
                                    HeadOf(heads, acc.st.uuid + 1))
                  IN  ScanEntries(es, k + 1, heads,
                        [st |-> r.st,
                         added |-> IF r.id # NoId THEN acc.added + 1 ELSE acc.added])

ScanLocalFolder(st, folder, heads) ==
    IF ~folder.exists THEN [st |-> st, added |-> 0]
    ELSE ScanEntries(folder.entries, 1, heads, [st |-> st, added |-> 0])

----------------------------------------------------------------------------
(* The executor jobs on the connection self._db.  A request q works on its *)
(* own photo, the photo q.                                                  *)

\* the requests in progress at the same time
Requests == {1, 2}

\* the closures handed to hass.async_add_executor_job: add_photo's _insert,
\* delete_photo's _delete, and the _query of a read
JobKinds == {"insert", "delete", "query"}

\* a job that a pool thread has begun and not finished
OnConnection(job) == job.pc \in {"running", "executed"}

\* cursor.execute(...) of a job of this kind for photo q
Executed(c, kind, q) ==
    IF kind = "insert" THEN [c EXCEPT !.rows = @ \cup {q}]
    ELSE IF kind = "delete" THEN [c EXCEPT !.rows = @ \ {q}]
    ELSE c

\* self._db.commit(): whatever any job has executed on the connection so far
\* is committed
Committed(c, kind) == IF kind = "query" THEN c ELSE [c EXCEPT !.committed = c.rows]

----------------------------------------------------------------------------
(* The state after construction, and one action per operation *)

\* const.py
DEFAULT_SCAN_INTERVAL == 5

\* the operations begun side by side on one hub
Starters == {1, 2, 3}

\* the _timer_tick calls that can be under way at once
Tickers == {1}

\* no timer: the id in a popped entry of the dict
NoTimer == 0

\* a _timer_tick that is not running; ended tells how its latest run ended:
\* at the end of the loop, or with an exception raised inside it
TickIdle ==
    [pc |-> "idle", pos |-> 0, size |-> 0, completed_ids |-> {}, ended |-> "no"]

\* no delete_photo and no get_thumbnail_path is under way
RaceIdle ==
    [id |-> NoId, d |-> "idle", t |-> "idle", d_photo |-> NoPath, d_result |-> FALSE,
     t_path |-> NoPath, t_found |-> FALSE]

Init ==
    /\ initialized = FALSE
    /\ photo_sources = {}
    /\ photos = <<>>
    /\ files = <<>>
    /\ thumbs = {}
    /\ now = 0
    /\ storage_ok = TRUE
    /\ next_uuid = 0
    /\ uploaded = <<>>
    /\ last = [op |-> "none"]
    /\ jobs = [q \in Requests |-> [pc |-> "idle", kind |-> "none"]]
    /\ conn = [rows |-> {}, committed |-> {}]
    /\ race = RaceIdle
    /\ boot = [pc |-> [q \in Starters |-> "idle"], runs |-> 0, opened |-> 0,
               used |-> [q \in Starters |-> 0]]
    /\ timers = <<>>
    /\ entries = <<>>
    /\ ticks = [k \in Tickers |-> TickIdle]
    /\ removals = {}
    /\ hidden = {}
    /\ timer_uuid = 0
    /\ tcall = [op |-> "none"]
    /\ consecutive_failures = 0
    /\ update_interval = DEFAULT_SCAN_INTERVAL
    /\ poll = [pc |-> "idle", outcome |-> "none", streak |-> 0]
    /\ media_files = {}
    /\ mlast = [op |-> "none"]

\* "if not self._initialized: await self.async_initialize()"
LazyInitialize ==
    /\ initialized' = TRUE
    /\ photo_sources' = SourcesNow

\* PhotoHub.async_initialize, called by itself
AsyncInitialize ==
    /\ LazyInitialize
    /\ last' = [op |-> "async_initialize", result |-> TRUE]
    /\ UNCHANGED <<photos, files, thumbs, now, storage_ok,
                   next_uuid, uploaded,
                   jobs, conn, side_vars>>

\* the resolved path of the original of photo i
OriginalOf(ph, i) == Original(ph[i].local_path)

\* PhotoHub.add_photo
AddPhotoCall ==
    \E file_data \in Blobs, filename \in FileNames, source_id \in SourceIds, head \in Heads :
        LET r == AddPhoto(Store, file_data, filename, source_id, head)
        IN  /\ next_uuid < MaxUuid
            /\ LazyInitialize
            /\ photos' = r.st.photos
            /\ files' = r.st.files
            /\ next_uuid' = r.st.uuid
            /\ uploaded' = r.st.uploaded
            /\ last' = [op |-> "add_photo", id |-> r.id, raised |-> r.raised,
                        data |-> file_data,
                        filename |-> filename, source_id |-> source_id,
                        clobbered |-> \E i \in DOMAIN photos : OriginalOf(photos, i) = r.wrote]
            /\ UNCHANGED <<thumbs, now, storage_ok,
                           jobs, conn, side_vars>>

Without(f, k) == [x \in DOMAIN f \ {k} |-> f[x]]

\* delete_photo reporting success for an id without a row
DeletePhotoAlwaysSucceeds(st, th, photo_id) ==
    IF ~HasPhoto(st.photos, photo_id)
    THEN [st |-> st, thumbs |-> th, result |-> TRUE]
    ELSE [st |-> [st EXCEPT !.files = Without(@, OriginalOf(st.photos, photo_id)),
                            !.photos = Without(@, photo_id),
                            !.uploaded = Without(@, photo_id)],
          thumbs |-> th \ {photo_id},
          result |-> TRUE]

\* delete_photo without the removal of the thumbnail
DeletePhotoKeepsThumbnail(st, th, photo_id) ==
    IF ~HasPhoto(st.photos, photo_id)
    THEN [st |-> st, thumbs |-> th, result |-> FALSE]
    ELSE [st |-> [st EXCEPT !.files = Without(@, OriginalOf(st.photos, photo_id)),
                            !.photos = Without(@, photo_id),
                            !.uploaded = Without(@, photo_id)],
          thumbs |-> th,
          result |-> TRUE]

\* PhotoHub.delete_photo
DeletePhoto(st, th, photo_id) ==
    IF ~HasPhoto(st.photos, photo_id)
    THEN [st |-> st, thumbs |-> th, result |-> FALSE]
    ELSE [st |-> [st EXCEPT !.files = Without(@, OriginalOf(st.photos, photo_id)),
                            !.photos = Without(@, photo_id),
                            !.uploaded = Without(@, photo_id)],
          thumbs |-> th \ {photo_id},
          result |-> TRUE]

DeletePhotoCall ==
    \E photo_id \in AllIds :
        LET r == DeletePhoto(Store, thumbs, photo_id)
        IN  /\ LazyInitialize
            /\ photos' = r.st.photos
            /\ files' = r.st.files
            /\ uploaded' = r.st.uploaded
            /\ thumbs' = r.thumbs
            /\ last' = [op |-> "delete_photo", id |-> photo_id, result |-> r.result,
                        original |-> IF r.result THEN OriginalOf(photos, photo_id)
                                     ELSE NoPath,
                        had_thumb |-> photo_id \in thumbs]
            /\ UNCHANGED <<now, storage_ok, next_uuid,
                           jobs, conn, side_vars>>

\* PhotoHub.get_photo_path, as DashiePhotoImageView.get calls it: 404 when it
\* returns None, the file at the path otherwise
GetPhotoPathCall ==
    \E photo_id \in AllIds :
        LET path == GetPhotoPath(photos, files, photo_id)
        IN  /\ LazyInitialize
            /\ last' = [op |-> "get_photo_path", id |-> photo_id, path |-> path,
                        status |-> IF path = NoPath THEN 404 ELSE 200]
            /\ UNCHANGED <<photos, files, thumbs, now, storage_ok,
                           next_uuid, uploaded,
                           jobs, conn, side_vars>>

\* PhotoHub.get_thumbnail_path
GetThumbnailPathCall ==
    \E photo_id \in AllIds :
        /\ IF ThumbCached(thumbs, photo_id)
           THEN UNCHANGED <<initialized, photo_sources>>
           ELSE LazyInitialize
        /\ LET generated == ThumbGenerated(photos, files, thumbs, photo_id)
           IN  /\ thumbs' = IF generated THEN thumbs \cup {photo_id} ELSE thumbs
               /\ last' = [op |-> "get_thumbnail_path", id |-> photo_id,
                           found |-> ThumbCached(thumbs, photo_id) \/ generated,
                           generated |-> generated]
        /\ UNCHANGED <<photos, files, now, storage_ok, next_uuid, uploaded,
                       jobs, conn, side_vars>>

\* source filters of the listing requests: none, and a built-in source
Filters == {"", "imported"}

\* PhotoHub.get_photos. walk is the concatenation of the pages of a walk at
\* offsets 0, limit, 2*limit, ... that this call continues or starts.
GetPhotosCall ==
    \E source_id \in Filters, limit \in 1..MaxLimit, offset \in 0..MaxOffset,
       random \in BOOLEAN :
        \E listing \in IF random THEN RandomListings(photos, source_id)
                       ELSE SortedListings(photos, source_id) :
            LET rows == LimitOffset(listing, limit, offset)
                continues == /\ last.op = "get_photos"
                             /\ last.walking
                             /\ ~random
                             /\ last.source_id = source_id
                             /\ last.limit = limit
                             /\ offset = last.offset + limit
                starts == ~random /\ offset = 0
            IN  /\ LazyInitialize
                /\ last' = [op |-> "get_photos", source_id |-> source_id,
                            limit |-> limit, offset |-> offset, random |-> random,
                            rows |-> rows,
                            walking |-> continues \/ starts,
                            walk |-> IF continues THEN last.walk \o rows
                                     ELSE IF starts THEN rows ELSE <<>>]
                /\ UNCHANGED <<photos, files, thumbs, now, storage_ok,
                               next_uuid, uploaded,
                               jobs, conn, side_vars>>

\* PhotoHub.get_photo_count
GetPhotoCountCall ==
    \E source_id \in Filters \cup {"local"} :
        /\ LazyInitialize
        /\ last' = [op |-> "get_photo_count", source_id |-> source_id,
                    result |-> GetPhotoCount(photos, source_id)]
        /\ UNCHANGED <<photos, files, thumbs, now, storage_ok,
                       next_uuid, uploaded,
                       jobs, conn, side_vars>>

\* PhotoHub.get_sources
GetSourcesCall ==
    /\ LazyInitialize
    /\ last' = [op |-> "get_sources", result |-> GetSources(SourcesNow, photos)]
    /\ UNCHANGED <<photos, files, thumbs, now, storage_ok,
                   next_uuid, uploaded,
                   jobs, conn, side_vars>>

\* the heads of the uuid4() values still to be drawn
UuidHeads == [(next_uuid + 1)..MaxUuid -> Heads]

\* PhotoHub.import_zip
ImportZipCall ==
    \E archive \in Archives, heads \in UuidHeads :
            LET r == ImportZip(Store, archive, heads)
            IN  /\ r.st.uuid <= MaxUuid
                /\ LazyInitialize
                /\ photos' = r.st.photos
                /\ files' = r.st.files
                /\ next_uuid' = r.st.uuid
                /\ uploaded' = r.st.uploaded
                /\ last' = [op |-> "import_zip", archive |-> archive,
                            raised |-> r.raised, imported |-> r.imported,
                            skipped |-> r.skipped, errors |-> r.errors,
                            photo_ids |-> r.photo_ids]
                /\ UNCHANGED <<thumbs, now, storage_ok,
                               jobs, conn, side_vars>>

\* PhotoHub.import_zip of the large archive
ImportLargeZipCall ==
    \E heads \in UuidHeads :
        LET archive == [opens |-> TRUE, zero_bytes |-> FALSE, entries |-> ZipLarge]
            r == ImportZip(Store, archive, heads)
        IN  /\ r.st.uuid <= MaxBulk
            /\ LazyInitialize
            /\ photos' = r.st.photos
            /\ files' = r.st.files
            /\ next_uuid' = r.st.uuid
            /\ uploaded' = r.st.uploaded
            /\ last' = [op |-> "import_zip", archive |-> archive,
                        raised |-> r.raised, imported |-> r.imported,
                        skipped |-> r.skipped, errors |-> r.errors,
                        photo_ids |-> r.photo_ids]
            /\ UNCHANGED <<thumbs, now, storage_ok, jobs, conn, side_vars>>

\* PhotoHub.scan_local_folder. rescan: the call before this one was a scan of
\* the same folder.
ScanLocalFolderCall ==
    \E folder \in Folders, heads \in UuidHeads :
            LET r == ScanLocalFolder(Store, folder, heads)
            IN  /\ r.st.uuid <= MaxUuid
                /\ LazyInitialize
                /\ photos' = r.st.photos
                /\ files' = r.st.files
                /\ next_uuid' = r.st.uuid
                /\ uploaded' = r.st.uploaded
                /\ last' = [op |-> "scan_local_folder", folder |-> folder,
                            result |-> r.added,
                            rescan |-> last.op = "scan_local_folder" /\ last.folder = folder,
                            grew |-> r.st.photos # photos \/ r.st.files # files]
                /\ UNCHANGED <<thumbs, now, storage_ok,
                               jobs, conn, side_vars>>

\* a second passes
Tick ==
    /\ now < MaxClock
    /\ now' = now + 1
    /\ UNCHANGED <<initialized, photo_sources, photos, files, thumbs, storage_ok, next_uuid, uploaded, last,
                   jobs, conn, side_vars>>

\* the storage starts or stops refusing to open files for writing
StorageChanges ==
    /\ storage_ok' = ~storage_ok
    /\ last' = [op |-> "storage"]
    /\ UNCHANGED <<initialized, photo_sources, photos, files, thumbs, now, next_uuid, uploaded,
                   jobs, conn, side_vars>>

\* an original is removed from the photos directory by something other than
\* the hub (the case "if path.exists()" of get_photo_path provides for)
OriginalRemoved ==
    \E i \in DOMAIN photos :
        /\ Exists(files, OriginalOf(photos, i))
        /\ files' = Without(files, OriginalOf(photos, i))
        /\ last' = [op |-> "original_removed"]
        /\ UNCHANGED <<initialized, photo_sources, photos, thumbs, now, storage_ok,
                       next_uuid, uploaded,
                       jobs, conn, side_vars>>

\* Home Assistant restarts: a new PhotoHub is constructed over the database
\* and the directories of the one before
Restart ==
    /\ initialized
    /\ initialized' = FALSE
    /\ last' = [op |-> "restart"]
    /\ UNCHANGED <<photo_sources, photos, files, thumbs, now, storage_ok,
                   next_uuid, uploaded,
                   jobs, conn, side_vars>>

\* delete_photo(id) and get_thumbnail_path(id) running side by side: each
\* coroutine gives way at its awaits, and the jobs they hand to the pool
\* (aiofiles.os.remove, _generate) run on threads of their own

\* what the steps of the two calls leave alone besides the hub's files and rows
beside_race == <<now, storage_ok, next_uuid, last, jobs, conn, boot, timer_vars,
                 coordinator_vars, media_vars>>

\* both calls are made for an id the hub has issued
BeginRace ==
    \E photo_id \in AllIds :
        /\ race.d = "idle"
        /\ race.t = "idle"
        /\ photo_id.tail <= next_uuid
        /\ race' = [RaceIdle EXCEPT !.id = photo_id, !.d = "get_photo", !.t = "exists"]
        /\ UNCHANGED <<initialized, photo_sources, photos, files, thumbs, uploaded, beside_race>>

\* delete_photo: "photo = await self.get_photo(photo_id)"
DeleteGetPhoto ==
    /\ race.d = "get_photo"
    /\ LazyInitialize
    /\ race' = IF HasPhoto(photos, race.id)
               THEN [race EXCEPT !.d = "remove_original",
                                 !.d_photo = OriginalOf(photos, race.id)]
               ELSE [race EXCEPT !.d = "done", !.d_result = FALSE]
    /\ UNCHANGED <<photos, files, thumbs, uploaded, beside_race>>

\* delete_photo: "if photo_path.exists(): await aiofiles.os.remove(photo_path)"
DeleteRemoveOriginal ==
    /\ race.d = "remove_original"
    /\ files' = Without(files, race.d_photo)
    /\ race' = [race EXCEPT !.d = "remove_thumb"]
    /\ UNCHANGED <<initialized, photo_sources, photos, thumbs, uploaded, beside_race>>

\* delete_photo: "if thumb_path.exists(): await aiofiles.os.remove(thumb_path)"
DeleteRemoveThumb ==
    /\ race.d = "remove_thumb"
    /\ thumbs' = thumbs \ {race.id}
    /\ race' = [race EXCEPT !.d = "delete_row"]
    /\ UNCHANGED <<initialized, photo_sources, photos, files, uploaded, beside_race>>

\* delete_photo: the job _delete, and "return True"
DeleteRow ==
    /\ race.d = "delete_row"
    /\ photos' = Without(photos, race.id)
    /\ uploaded' = Without(uploaded, race.id)
    /\ race' = [race EXCEPT !.d = "done", !.d_result = TRUE]
    /\ UNCHANGED <<initialized, photo_sources, files, thumbs, beside_race>>

\* get_thumbnail_path: "if thumb_path.exists(): return thumb_path"
ThumbExists ==
    /\ race.t = "exists"
    /\ race' = IF ThumbCached(thumbs, race.id)
               THEN [race EXCEPT !.t = "done", !.t_found = TRUE]
               ELSE [race EXCEPT !.t = "get_photo_path"]
    /\ UNCHANGED <<initialized, photo_sources, photos, files, thumbs, uploaded, beside_race>>

\* get_thumbnail_path: "photo_path = await self.get_photo_path(photo_id)"
ThumbGetPhotoPath ==
    /\ race.t = "get_photo_path"
    /\ LazyInitialize
    /\ LET photo_path == GetPhotoPath(photos, files, race.id)
       IN  race' = IF photo_path = NoPath
                   THEN [race EXCEPT !.t = "done", !.t_found = FALSE]
                   ELSE [race EXCEPT !.t = "open", !.t_path = photo_path]
    /\ UNCHANGED <<photos, files, thumbs, uploaded, beside_race>>

\* _generate on its thread: "with Image.open(source_path) as img", which
\* raises when the file is gone or is no image
ThumbOpen ==
    /\ race.t = "open"
    /\ race' = IF Exists(files, race.t_path) /\ Decodable(files[race.t_path])
               THEN [race EXCEPT !.t = "save"]
               ELSE [race EXCEPT !.t = "resume"]
    /\ UNCHANGED <<initialized, photo_sources, photos, files, thumbs, uploaded, beside_race>>

\* _generate on its thread: "img.save(thumb_path, ...)" from the file it holds
\* open; unlinking the original meanwhile does not take the open file away
ThumbSave ==
    /\ race.t = "save"
    /\ thumbs' = IF storage_ok THEN thumbs \cup {race.id} ELSE thumbs
    /\ race' = [race EXCEPT !.t = "resume"]
    /\ UNCHANGED <<initialized, photo_sources, photos, files, uploaded, beside_race>>

\* get_thumbnail_path: "if thumb_path.exists(): return thumb_path", else None
ThumbResume ==
    /\ race.t = "resume"
    /\ race' = [race EXCEPT !.t = "done", !.t_found = ThumbCached(thumbs, race.id)]
    /\ UNCHANGED <<initialized, photo_sources, photos, files, thumbs, uploaded, beside_race>>

\* both calls have returned; the next pair may begin
EndRace ==
    /\ race.d = "done"
    /\ race.t = "done"
    /\ race' = RaceIdle
    /\ UNCHANGED <<initialized, photo_sources, photos, files, thumbs, uploaded, beside_race>>

\* the calls made before the two begin and after they have returned
Quiet == race.d = "idle" /\ race.t = "idle"

NextRace ==
    \/ AsyncInitialize
    \/ Quiet /\ AddPhotoCall
    \/ Quiet /\ GetThumbnailPathCall
    \/ BeginRace
    \/ DeleteGetPhoto
    \/ DeleteRemoveOriginal
    \/ DeleteRemoveThumb
    \/ DeleteRow
    \/ ThumbExists
    \/ ThumbGetPhotoPath
    \/ ThumbOpen
    \/ ThumbSave
    \/ ThumbResume
    \/ EndRace

SpecRace == Init /\ [][NextRace]_vars

\* operations begun side by side on a hub: "if not self._initialized: await
\* self.async_initialize()", then the operation's own job on self._db.
\* boot.opened counts the sqlite3.connect calls, self._db being the latest;
\* boot.runs counts the runs of _init_database; boot.used[q] is the
\* connection the job of q ran on.

beside_boot == <<photos, files, thumbs, now, storage_ok, next_uuid, uploaded, last,
                 jobs, conn, race, timer_vars, coordinator_vars, media_vars>>

\* the operation is called: "if not self._initialized" and, inside
\* async_initialize, "if self._initialized: return True", with no await
\* between the two tests
BeginOperation(q) ==
    /\ boot.pc[q] = "idle"
    /\ boot' = [boot EXCEPT !.pc[q] = IF initialized THEN "job" ELSE "makedirs"]
    /\ UNCHANGED <<initialized, photo_sources, beside_boot>>

\* "await aiofiles.os.makedirs(...)", three times
Makedirs(q) ==
    /\ boot.pc[q] = "makedirs"
    /\ boot' = [boot EXCEPT !.pc[q] = "init_database"]
    /\ UNCHANGED <<initialized, photo_sources, beside_boot>>

\* "await self.hass.async_add_executor_job(self._init_database)": connects,
\* stores the connection in self._db, creates the schema and the defaults
RunInitDatabase(q) ==
    /\ boot.pc[q] = "init_database"
    /\ photo_sources' = SourcesNow
    /\ boot' = [boot EXCEPT !.pc[q] = "set_initialized",
                            !.runs = @ + 1,
                            !.opened = @ + 1]
    /\ UNCHANGED <<initialized, beside_boot>>

\* "self._initialized = True; return True"
SetInitialized(q) ==
    /\ boot.pc[q] = "set_initialized"
    /\ initialized' = TRUE
    /\ boot' = [boot EXCEPT !.pc[q] = "job"]
    /\ UNCHANGED <<photo_sources, beside_boot>>

\* the operation's job: "cursor = self._db.cursor()" on the connection that
\* self._db holds now
RunOperationJob(q) ==
    /\ boot.pc[q] = "job"
    /\ boot' = [boot EXCEPT !.pc[q] = "done", !.used[q] = boot.opened]
    /\ UNCHANGED <<initialized, photo_sources, beside_boot>>

NextBoot ==
    \E q \in Starters :
        \/ BeginOperation(q)
        \/ Makedirs(q)
        \/ RunInitDatabase(q)
        \/ SetInitialized(q)
        \/ RunOperationJob(q)

SpecBoot == Init /\ [][NextBoot]_vars

(* __init__.py: the timer service. At least one device is configured, so
   every "await coordinator.send_command(...)" gives way to other tasks. *)

MAX_TIMERS == 3

beside_timers == <<initialized, photo_sources, photos, files, thumbs, now, storage_ok,
                   next_uuid, uploaded, last, jobs, conn, race, boot, coordinator_vars,
                   media_vars>>

\* len(timers) and the ids in the order of the dict
Size(ts) == Cardinality(DOMAIN ts)

\* whether a _timer_tick is suspended inside its loop over the dict
Iterating(tk) == \E k \in Tickers : tk[k].pc = "sending"

\* the popped entries of the dict matter to a loop that is under way only
IsLive(timer_id) == timer_id # NoTimer

Compact(es, tk) == IF Iterating(tk) THEN es ELSE SelectSeq(es, IsLive)

Pop(es, timer_id) == [i \in DOMAIN es |-> IF es[i] = timer_id THEN NoTimer ELSE es[i]]

\* a slot search that always answers slot 1
FirstSlotAlways(ts) == 1

\* _find_available_slot; 0 for None
FindAvailableSlot(ts) ==
    LET used_slots == {ts[i].slot : i \in DOMAIN ts}
        free == (1..MAX_TIMERS) \ used_slots
    IN  IF free = {} THEN 0
        ELSE CHOOSE slot \in free : \A other \in free : slot <= other

\* _get_timer_by_slot: the first timer of the dict with the slot
GetTimerBySlot(ts, es, slot) ==
    LET found == {i \in DOMAIN es : es[i] # NoTimer /\ ts[es[i]].slot = slot}
    IN  IF found = {} THEN NoTimer
        ELSE es[CHOOSE i \in found : \A j \in found : i <= j]

\* _calculate_remaining. timer.elapsed is time.time() - timer["started_at"]
\* in steps of the clock, and int() drops the part of a second.
CalculateRemaining(timer) ==
    IF timer.state = "paused" THEN timer.remaining_seconds
    ELSE IF timer.state = "active"
         THEN LET remaining == timer.duration_seconds - (timer.elapsed \div Resolution)
              IN  IF remaining > 0 THEN remaining ELSE 0
         ELSE 0

\* time.time() moves on by one step. The elapsed time of a timer is counted
\* up to the end of its duration, after which _calculate_remaining is 0
\* whatever the time.
AdvanceTime ==
    /\ timers' = [i \in DOMAIN timers |->
                    IF /\ timers[i].state = "active"
                       /\ timers[i].elapsed < timers[i].duration_seconds * Resolution
                    THEN [timers[i] EXCEPT !.elapsed = @ + 1]
                    ELSE timers[i]]
    /\ tcall' = [op |-> "time"]
    /\ UNCHANGED <<entries, ticks, removals, hidden, timer_uuid, beside_timers>>

\* async_start_timer, with the duration already parsed to seconds
StartTimer ==
    \E duration_seconds \in 0..MaxDuration :
        LET slot == FindAvailableSlot(timers)
            timer_id == timer_uuid + 1
            created == duration_seconds > 0 /\ slot # 0
            timer == [id |-> timer_id, slot |-> slot,
                      duration_seconds |-> duration_seconds,
                      remaining_seconds |-> duration_seconds,
                      state |-> "active", elapsed |-> 0]
        IN  /\ created => timer_id <= MaxTimerIds
            /\ timers' = IF created THEN Extend(timers, timer_id, timer) ELSE timers
            /\ entries' = IF created THEN Append(Compact(entries, ticks), timer_id)
                          ELSE entries
            /\ timer_uuid' = IF created THEN timer_id ELSE timer_uuid
            /\ tcall' = [op |-> "start_timer", duration_seconds |-> duration_seconds,
                         id |-> IF created THEN timer_id ELSE NoTimer]
            /\ UNCHANGED <<ticks, removals, hidden, beside_timers>>

\* call.data of pause_timer and cancel_timer: a timer id, a slot, or neither
\* (0 where the key is absent)
Selectors ==
    {[timer_id |-> i, slot |-> 0] : i \in 0..MaxTimerIds}
        \cup {[timer_id |-> 0, slot |-> s] : s \in 1..MAX_TIMERS}

\* "Find the timer" of async_pause_timer and async_cancel_timer; NoTimer when
\* there is none or when several timers exist and none is named
FindTimer(ts, es, sel) ==
    IF sel.timer_id # 0
    THEN IF sel.timer_id \in DOMAIN ts THEN sel.timer_id ELSE NoTimer
    ELSE IF sel.slot # 0
         THEN GetTimerBySlot(ts, es, sel.slot)
         ELSE IF Size(ts) = 1 THEN CHOOSE i \in DOMAIN ts : TRUE ELSE NoTimer

\* the resume branch keeping the duration the timer was started with
ResumedFromStart(timer) ==
    [timer EXCEPT !.state = "active", !.elapsed = 0]

\* async_pause_timer, resume branch: "started_at = time.time()",
\* "duration_seconds = remaining_seconds"
Resumed(timer) ==
    [timer EXCEPT !.state = "active", !.elapsed = 0,
                  !.duration_seconds = timer.remaining_seconds]

\* async_pause_timer, pause branch
Paused(timer) ==
    [timer EXCEPT !.remaining_seconds = CalculateRemaining(timer), !.state = "paused"]

\* async_pause_timer
PauseTimer ==
    \E sel \in Selectors :
        LET timer_id == FindTimer(timers, entries, sel)
            before == IF timer_id = NoTimer THEN "none" ELSE timers[timer_id].state
        IN  /\ timers' = IF before = "active"
                         THEN [timers EXCEPT ![timer_id] = Paused(@)]
                         ELSE IF before = "paused"
                              THEN [timers EXCEPT ![timer_id] = Resumed(@)]
                              ELSE timers
            /\ tcall' = [op |-> "pause_timer", id |-> timer_id]
            /\ UNCHANGED <<entries, ticks, removals, hidden, timer_uuid, beside_timers>>

\* async_cancel_timer
CancelTimer ==
    \E sel \in Selectors :
        LET timer_id == FindTimer(timers, entries, sel)
        IN  /\ timers' = Without(timers, timer_id)
            /\ entries' = Compact(Pop(entries, timer_id), ticks)
            /\ hidden' = IF timer_id = NoTimer THEN hidden ELSE hidden \cup {timer_id}
            /\ tcall' = [op |-> "cancel_timer", id |-> timer_id]
            /\ UNCHANGED <<ticks, removals, timer_uuid, beside_timers>>

\* the first entry after pos that holds an active timer; 0 when there is none
NextActive(ts, es, pos) ==
    LET found == {i \in (pos + 1)..Len(es) : es[i] # NoTimer /\ ts[es[i]].state = "active"}
    IN  IF found = {} THEN 0
        ELSE CHOOSE i \in found : \A j \in found : i <= j

\* _timer_tick from the entry after tk.pos up to its next await or to the end
\* of the loop, where it makes a remove_after_delay task for each of
\* completed_ids
TickRun(k, tk) ==
    LET i == NextActive(timers, entries, tk.pos)
    IN  IF i = 0
        THEN LET ended == [TickIdle EXCEPT !.ended = "end"]
                 after == [ticks EXCEPT ![k] = ended]
             IN  /\ ticks' = after
                 /\ removals' = removals \cup tk.completed_ids
                 /\ entries' = Compact(entries, after)
                 /\ UNCHANGED timers
        ELSE LET timer_id == entries[i]
                 completed == CalculateRemaining(timers[timer_id]) <= 0
             IN  /\ timers' = IF completed
                              THEN [timers EXCEPT ![timer_id].state = "completed",
                                                  ![timer_id].remaining_seconds = 0]
                              ELSE timers
                 /\ ticks' = [ticks EXCEPT ![k] =
                                [tk EXCEPT !.pc = "sending", !.pos = i,
                                           !.completed_ids =
                                                IF completed THEN @ \cup {timer_id} ELSE @]]
                 /\ UNCHANGED <<removals, entries>>

\* async_track_time_interval calls _timer_tick
TickBegin(k) ==
    /\ ticks[k].pc = "idle"
    /\ TickRun(k, [TickIdle EXCEPT !.size = Size(timers)])
    /\ tcall' = [op |-> "tick"]
    /\ UNCHANGED <<hidden, timer_uuid, beside_timers>>

\* the await of _timer_tick returns and the loop asks the dict for its next
\* item: "RuntimeError: dictionary changed size during iteration" when
\* len(timers) is not what it was when the loop began
TickResume(k) ==
    /\ ticks[k].pc = "sending"
    /\ IF Size(timers) # ticks[k].size
       THEN LET raised == [TickIdle EXCEPT !.ended = "raised"]
                after == [ticks EXCEPT ![k] = raised]
            IN  /\ ticks' = after
                /\ entries' = Compact(entries, after)
                /\ UNCHANGED <<timers, removals>>
       ELSE TickRun(k, ticks[k])
    /\ tcall' = [op |-> "tick"]
    /\ UNCHANGED <<hidden, timer_uuid, beside_timers>>

\* remove_after_delay(tid) after its sleep
RemoveAfterDelay ==
    \E tid \in removals :
        /\ removals' = removals \ {tid}
        /\ timers' = Without(timers, tid)
        /\ entries' = IF tid \in DOMAIN timers THEN Compact(Pop(entries, tid), ticks)
                      ELSE entries
        /\ hidden' = IF tid \in DOMAIN timers THEN hidden \cup {tid} ELSE hidden
        /\ tcall' = [op |-> "remove_after_delay", id |-> tid]
        /\ UNCHANGED <<ticks, timer_uuid, beside_timers>>

NextTimers ==
    \/ AdvanceTime
    \/ StartTimer
    \/ PauseTimer
    \/ CancelTimer
    \/ \E k \in Tickers : TickBegin(k)
    \/ \E k \in Tickers : TickResume(k)
    \/ RemoveAfterDelay

SpecTimers == Init /\ [][NextTimers]_vars

\* the timer service while the integration stays loaded: time passes,
\* async_track_time_interval keeps calling _timer_tick, every send to a
\* device returns (send_command has a total timeout), and every sleep of a
\* remove_after_delay task ends. The service calls are under no obligation.
TimersFairness ==
    /\ WF_vars(AdvanceTime)
    /\ \A k \in Tickers : WF_vars(TickBegin(k)) /\ WF_vars(TickResume(k))
    /\ WF_vars(RemoveAfterDelay)

SpecTimersLive == SpecTimers /\ TimersFairness

(* coordinator.py: the poll and its backoff *)

NORMAL_INTERVAL == 15

MEDIUM_BACKOFF == 30

MAX_BACKOFF == 120

MEDIUM_BACKOFF_THRESHOLD == 4

MAX_BACKOFF_THRESHOLD == 12

beside_coordinator == <<initialized, photo_sources, photos, files, thumbs, now, storage_ok,
                        next_uuid, uploaded, last, jobs, conn, race, boot, timer_vars,
                        media_vars>>

\* a schedule that backs off one failure early
BackoffIntervalEarly(failures) ==
    IF failures < MEDIUM_BACKOFF_THRESHOLD THEN NORMAL_INTERVAL
    ELSE IF failures < MAX_BACKOFF_THRESHOLD THEN MEDIUM_BACKOFF
    ELSE MAX_BACKOFF

\* _apply_backoff: new_interval for the failure count
BackoffInterval(failures) ==
    IF failures <= MEDIUM_BACKOFF_THRESHOLD THEN NORMAL_INTERVAL
    ELSE IF failures <= MAX_BACKOFF_THRESHOLD THEN MEDIUM_BACKOFF
    ELSE MAX_BACKOFF

\* what ends a poll without data: asyncio.TimeoutError, aiohttp.ClientError,
\* any other Exception
PollErrors == {"timeout", "client_error", "exception"}

\* _async_update_data is called: "data = await self._fetch_device_info()"
PollBegin ==
    /\ poll.pc = "idle"
    /\ poll' = [poll EXCEPT !.pc = "fetching"]
    /\ UNCHANGED <<consecutive_failures, update_interval, beside_coordinator>>

\* the fetch returns data: _reset_backoff. poll.streak counts the polls that
\* failed since the last one that succeeded.
PollSucceeds ==
    /\ poll.pc = "fetching"
    /\ consecutive_failures' = 0
    /\ update_interval' = DEFAULT_SCAN_INTERVAL
    /\ poll' = [pc |-> "idle", outcome |-> "success", streak |-> 0]
    /\ UNCHANGED beside_coordinator

\* the fetch raises: _apply_backoff, then UpdateFailed
PollFails ==
    \E error \in PollErrors :
        /\ poll.pc = "fetching"
        /\ poll.streak < MaxFailures
        /\ consecutive_failures' = consecutive_failures + 1
        /\ update_interval' = BackoffInterval(consecutive_failures + 1)
        /\ poll' = [pc |-> "idle", outcome |-> error, streak |-> poll.streak + 1]
        /\ UNCHANGED beside_coordinator

NextCoordinator ==
    \/ PollBegin
    \/ PollSucceeds
    \/ PollFails

SpecCoordinator == Init /\ [][NextCoordinator]_vars

(* media_api.py: DashieMediaImageView *)

\* the media base directory, and a directory beside it whose name begins with
\* the name of the base
MEDIA_DIR == <<"media">>

SIBLING_DIR == <<"media", "2">>

beside_media == <<initialized, photo_sources, photos, files, thumbs, now, storage_ok,
                  next_uuid, uploaded, last, jobs, conn, race, boot, timer_vars,
                  coordinator_vars>>

\* str(path) of a resolved path
RECURSIVE Str(_)
Str(resolved) ==
    IF resolved = <<>> THEN <<>>
    ELSE IF Len(resolved) = 1 THEN resolved[1]
    ELSE resolved[1] \o <<"/">> \o Str(Tail(resolved))

\* s.startswith(prefix)
StartsWith(s, prefix) ==
    /\ Len(s) >= Len(prefix)
    /\ SubSeq(s, 1, Len(prefix)) = prefix

\* "str(file_path).startswith(str(media_dir))" of the resolved paths
Within(file_path, media_dir) == StartsWith(Str(file_path), Str(media_dir))

\* the {folder} and {filename:.*} of a request
MediaFolders == { <<".">>, <<"a">>, <<"..">> }

MediaFilenames ==
    { <<"a", ".", "jpg">>,
      <<"..", "/", "a", ".", "jpg">>,
      <<"..", "/">> \o SIBLING_DIR \o <<"/", "a", ".", "jpg">> }

\* the files that can be on disk
MediaPaths ==
    { Resolve(Join(MEDIA_DIR, <<"a", ".", "jpg">>)),
      Resolve(Join(MEDIA_DIR, <<"a", "/", "a", ".", "jpg">>)),
      Resolve(Join(SIBLING_DIR, <<"a", ".", "jpg">>)),
      Resolve(<<"a", ".", "jpg">>) }

\* a file is put on disk or taken away
MediaFileChanges ==
    \E path \in MediaPaths :
        /\ media_files' = IF path \in media_files THEN media_files \ {path}
                          ELSE media_files \cup {path}
        /\ mlast' = [op |-> "none"]
        /\ UNCHANGED <<beside_media>>

\* DashieMediaImageView.get
MediaImageViewGet ==
    \E folder \in MediaFolders, filename \in MediaFilenames :
        LET joined == IF folder = <<".">> THEN Join(MEDIA_DIR, filename)
                      ELSE Join(Join(MEDIA_DIR, folder), filename)
            file_path == Resolve(joined)
            media_dir == Resolve(MEDIA_DIR)
            status == IF ~Within(file_path, media_dir) THEN 403
                      ELSE IF file_path \notin media_files THEN 404
                      ELSE 200
        IN  /\ mlast' = [op |-> "media_image", folder |-> folder, filename |-> filename,
                         status |-> status,
                         served |-> IF status = 200 THEN file_path ELSE NoPath]
            /\ UNCHANGED <<media_files, beside_media>>

NextMedia ==
    \/ MediaFileChanges
    \/ MediaImageViewGet

SpecMedia == Init /\ [][NextMedia]_vars

\* everything but the jobs and the connection
hub_vars == <<initialized, photo_sources, photos, files, thumbs, now, storage_ok,
              next_uuid, uploaded, last, side_vars>>

\* "await self.hass.async_add_executor_job(...)": the coroutine of request q
\* hands a job to the pool and the event loop goes on with other requests
SubmitJob(q) ==
    \E kind \in JobKinds :
        /\ jobs[q].pc = "idle"
        /\ jobs' = [jobs EXCEPT ![q] = [pc |-> "queued", kind |-> kind]]
        /\ UNCHANGED <<conn, hub_vars>>

\* a thread of the pool begins the job: "cursor = self._db.cursor()". No lock
\* is taken.
StartJob(q) ==
    /\ jobs[q].pc = "queued"
    /\ jobs' = [jobs EXCEPT ![q].pc = "running"]
    /\ UNCHANGED <<conn, hub_vars>>

\* cursor.execute(...)
ExecuteJob(q) ==
    /\ jobs[q].pc = "running"
    /\ conn' = Executed(conn, jobs[q].kind, q)
    /\ jobs' = [jobs EXCEPT ![q].pc = "executed"]
    /\ UNCHANGED hub_vars

\* self._db.commit() of _insert and _delete, cursor.fetchone() of _query; the
\* job ends
FinishJob(q) ==
    /\ jobs[q].pc = "executed"
    /\ conn' = Committed(conn, jobs[q].kind)
    /\ jobs' = [jobs EXCEPT ![q].pc = "done"]
    /\ UNCHANGED hub_vars

\* the coroutine of request q resumes and the request ends
ResumeRequest(q) ==
    /\ jobs[q].pc = "done"
    /\ jobs' = [jobs EXCEPT ![q] = [pc |-> "idle", kind |-> "none"]]
    /\ UNCHANGED <<conn, hub_vars>>

\* the requests, each waiting for its job, and the threads of the pool
NextPool ==
    \E q \in Requests :
        \/ SubmitJob(q)
        \/ StartJob(q)
        \/ ExecuteJob(q)
        \/ FinishJob(q)
        \/ ResumeRequest(q)

SpecPool == Init /\ [][NextPool]_vars

----------------------------------------------------------------------------
(* The HTTP views *)

\* a response with a JSON body {"error": ...}
JsonError(status) == [status |-> status, error |-> TRUE, unhandled |-> FALSE]

\* a response with the JSON body or the file of a success
Success == [status |-> 200, error |-> FALSE, unhandled |-> FALSE]

\* an exception leaves the handler: the server answers 500 without a JSON body
Unhandled == [status |-> 500, error |-> FALSE, unhandled |-> TRUE]

\* reader.next(): no part, a part with another name, a part named "file"
Fields == {"none", "other", "file"}

\* a part without bytes
NoBytes == ""

\* field.filename of an upload: a.jpg, a.txt, and <<>> when the part carries
\* none
UploadNames == {<<"a", ".", "jpg">>, <<"a", ".", "txt">>, <<>>}

\* field.filename or "upload.jpg"
UploadFilename(name) == IF name = <<>> THEN <<"upload", ".", "jpg">> ELSE name

\* the response of DashiePhotoUploadView.post to the outcome r of add_photo
UploadResponse(hub, field, file_data, r) ==
    IF ~hub THEN JsonError(503)
    ELSE IF field # "file" THEN JsonError(400)
    ELSE IF file_data = NoBytes THEN JsonError(400)
    ELSE IF r.raised THEN Unhandled
    ELSE IF r.id # NoId THEN Success
    ELSE JsonError(500)

\* DashiePhotoUploadView.post
UploadViewPost ==
    \E hub \in BOOLEAN, field \in Fields, file_data \in Blobs \cup {NoBytes},
       name \in UploadNames, head \in Heads :
        LET calls == hub /\ field = "file" /\ file_data # NoBytes
            r == IF calls
                 THEN AddPhoto(Store, file_data, UploadFilename(name), "imported", head)
                 ELSE [st |-> Store, id |-> NoId, raised |-> FALSE, wrote |-> NoPath]
        IN  /\ next_uuid < MaxUuid
            /\ IF calls THEN LazyInitialize ELSE UNCHANGED <<initialized, photo_sources>>
            /\ photos' = r.st.photos
            /\ files' = r.st.files
            /\ next_uuid' = r.st.uuid
            /\ uploaded' = r.st.uploaded
            /\ last' = [op |-> "upload_view", hub |-> hub, field |-> field,
                        data |-> file_data, filename |-> UploadFilename(name),
                        id |-> r.id,
                        response |-> UploadResponse(hub, field, file_data, r)]
            /\ UNCHANGED <<thumbs, now, storage_ok,
                           jobs, conn, side_vars>>

\* the response of DashiePhotoImportView.post to the outcome r of import_zip
ImportResponse(hub, field, archive, r) ==
    IF ~hub THEN JsonError(503)
    ELSE IF field # "file" THEN JsonError(400)
    ELSE IF archive.zero_bytes THEN JsonError(400)
    ELSE IF r.raised THEN Unhandled
    ELSE Success

\* DashiePhotoImportView.post
ImportViewPost ==
    \E hub \in BOOLEAN, field \in Fields, archive \in Archives, heads \in UuidHeads :
        LET calls == hub /\ field = "file" /\ ~archive.zero_bytes
            r == IF calls THEN ImportZip(Store, archive, heads)
                 ELSE [st |-> Store, raised |-> FALSE, imported |-> 0, skipped |-> 0,
                       errors |-> <<>>, photo_ids |-> <<>>]
        IN  /\ r.st.uuid <= MaxUuid
            /\ IF calls THEN LazyInitialize ELSE UNCHANGED <<initialized, photo_sources>>
            /\ photos' = r.st.photos
            /\ files' = r.st.files
            /\ next_uuid' = r.st.uuid
            /\ uploaded' = r.st.uploaded
            /\ last' = [op |-> "import_view", hub |-> hub, field |-> field,
                        archive |-> archive, errors |-> r.errors,
                        response |-> ImportResponse(hub, field, archive, r)]
            /\ UNCHANGED <<thumbs, now, storage_ok,
                           jobs, conn, side_vars>>

\* the texts of the limit and offset query parameters, absent ones included
QueryTexts == {"absent", "1", "x"}

\* int(request.query.get(name, default)): NULL when int() raises ValueError
ParseInt(text, default) ==
    IF text = "absent" THEN Some(default)
    ELSE IF text = "1" THEN Some(1)
    ELSE NULL

\* the limit of a listing request without one
DefaultLimit == 100

\* DashiePhotoListView.get
ListViewGet ==
    \E hub \in BOOLEAN, source_id \in Filters, limit \in QueryTexts,
       offset \in QueryTexts :
        LET l == ParseInt(limit, DefaultLimit)
            o == ParseInt(offset, 0)
            calls == hub /\ l # NULL /\ o # NULL
        IN  /\ IF calls THEN LazyInitialize ELSE UNCHANGED <<initialized, photo_sources>>
            /\ \E listing \in SortedListings(photos, source_id) :
                last' = [op |-> "list_view", hub |-> hub, limit |-> limit,
                         offset |-> offset,
                         rows |-> IF calls THEN LimitOffset(listing, l[1], o[1]) ELSE <<>>,
                         total |-> IF calls THEN GetPhotoCount(photos, source_id) ELSE 0,
                         response |-> IF ~hub THEN JsonError(503)
                                      ELSE IF l = NULL \/ o = NULL THEN Unhandled
                                      ELSE Success]
            /\ UNCHANGED <<photos, files, thumbs, now, storage_ok, next_uuid, uploaded,
                           jobs, conn, side_vars>>

\* DashiePhotoDetailView.delete
DetailViewDelete ==
    \E hub \in BOOLEAN, photo_id \in AllIds :
        LET r == IF hub THEN DeletePhoto(Store, thumbs, photo_id)
                 ELSE [st |-> Store, thumbs |-> thumbs, result |-> FALSE]
        IN  /\ IF hub THEN LazyInitialize ELSE UNCHANGED <<initialized, photo_sources>>
            /\ photos' = r.st.photos
            /\ files' = r.st.files
            /\ uploaded' = r.st.uploaded
            /\ thumbs' = r.thumbs
            /\ last' = [op |-> "delete_view", hub |-> hub, id |-> photo_id,
                        existed |-> HasPhoto(photos, photo_id),
                        response |-> IF ~hub THEN JsonError(503)
                                     ELSE IF ~r.result THEN JsonError(404)
                                     ELSE Success]
            /\ UNCHANGED <<now, storage_ok, next_uuid,
                           jobs, conn, side_vars>>

\* the operations without the listing requests and the clock
NextHub ==
    \/ AsyncInitialize
    \/ AddPhotoCall
    \/ DeletePhotoCall
    \/ GetPhotoPathCall
    \/ GetThumbnailPathCall
    \/ GetPhotoCountCall
    \/ GetSourcesCall
    \/ ImportZipCall
    \/ ScanLocalFolderCall
    \/ StorageChanges

SpecHub == Init /\ [][NextHub]_vars

\* the catalog under add_photo and delete_photo, the clock and the listing
\* requests
NextList ==
    \/ AsyncInitialize
    \/ AddPhotoCall
    \/ DeletePhotoCall
    \/ GetPhotosCall
    \/ Tick

SpecList == Init /\ [][NextList]_vars

\* serving originals and thumbnails while originals can go missing
NextServe ==
    \/ AsyncInitialize
    \/ AddPhotoCall
    \/ DeletePhotoCall
    \/ GetPhotoPathCall
    \/ GetThumbnailPathCall
    \/ OriginalRemoved

SpecServe == Init /\ [][NextServe]_vars

\* imports of small archives and of the large one
NextImport ==
    \/ AsyncInitialize
    \/ ImportZipCall
    \/ ImportLargeZipCall
    \/ DeletePhotoCall
    \/ StorageChanges

SpecImport == Init /\ [][NextImport]_vars

\* initialization on a fresh and on an existing database
NextInit ==
    \/ AsyncInitialize
    \/ Restart
    \/ Tick
    \/ AddPhotoCall
    \/ DeletePhotoCall

SpecInit == Init /\ [][NextInit]_vars

\* the requests of the HTTP views, with thumbnails and a storage that can fail
NextHttp ==
    \/ UploadViewPost
    \/ ImportViewPost
    \/ ListViewGet
    \/ DetailViewDelete
    \/ GetThumbnailPathCall
    \/ StorageChanges

SpecHttp == Init /\ [][NextHttp]_vars

Next ==
    \/ AsyncInitialize
    \/ AddPhotoCall
    \/ DeletePhotoCall
    \/ GetPhotoPathCall
    \/ GetThumbnailPathCall
    \/ GetPhotosCall
    \/ GetPhotoCountCall
    \/ GetSourcesCall
    \/ ImportZipCall
    \/ ScanLocalFolderCall
    \/ Tick
    \/ StorageChanges
    \/ OriginalRemoved
    \/ UploadViewPost
    \/ ImportViewPost
    \/ ListViewGet
    \/ DetailViewDelete
    \/ Restart
    \/ NextPool
    \/ ImportLargeZipCall
    \/ NextRace
    \/ NextBoot
    \/ NextTimers
    \/ NextCoordinator
    \/ NextMedia

Spec == Init /\ [][Next]_vars

----------------------------------------------------------------------------
(* Properties *)

\* C1: get_photo_path / GET /photos/{id}/image never returns a file outside
\* the originals root: a stored path that resolves outside it is answered
\* with not-found (404).
C1_PathContainment ==
    last.op = "get_photo_path" =>
        \/ last.path = NoPath /\ last.status = 404
        \/ IsUnder(last.path, PHOTOS_DIR)

\* C2: round trip: as long as a photo that add_photo admitted is not deleted,
\* get_photo_path(id) names a file with exactly the bytes that were given,
\* whatever is added, imported or scanned afterwards.
C2_RoundTrip ==
    \A i \in DOMAIN photos :
        /\ GetPhotoPath(photos, files, i) # NoPath
        /\ files[GetPhotoPath(photos, files, i)] = uploaded[i]

\* C3: cascade delete: after delete_photo(id) returned true, the row, the
\* original and the thumbnail are gone, and get_photo, get_photo_path and
\* get_thumbnail_path of that id find nothing.
C3_CascadeDelete ==
    (last.op = "delete_photo" /\ last.result) =>
        /\ ~HasPhoto(photos, last.id)
        /\ ~Exists(files, last.original)
        /\ last.id \notin thumbs
        /\ GetPhotoPath(photos, files, last.id) = NoPath
        /\ ~GetThumbnailPath(photos, files, thumbs, last.id)

\* a photo that had a thumbnail has been deleted
C3_Witness ==
    /\ last.op = "delete_photo"
    /\ last.result
    /\ last.had_thumb

\* C4: pagination: a non-random listing with limit L and offset O of N
\* matching photos has max(0, min(L, N - O)) rows, and the pages at offsets
\* 0, L, 2L, ... of an unchanged catalog, put end to end, are the full
\* non-random listing, each photo once.
C4_Pagination ==
    (last.op = "get_photos" /\ ~last.random) =>
        LET N == Cardinality(Matching(photos, last.source_id))
            rest == IF N > last.offset THEN N - last.offset ELSE 0
        IN  /\ Len(last.rows) = Min(last.limit, rest)
            /\ (last.walking /\ last.offset + last.limit >= N) =>
                    last.walk \in SortedListings(photos, last.source_id)

\* the entries of an archive that are valid images, that have an unsupported
\* extension, and that are corrupt (cannot be read back) under a supported
\* extension
ValidEntries(es) ==
    {k \in DOMAIN es : /\ ~IsDirectoryName(es[k].name)
                       /\ SupportedName(es[k].name)
                       /\ es[k].readable
                       /\ Decodable(es[k].data)}

UnsupportedEntries(es) ==
    {k \in DOMAIN es : ~IsDirectoryName(es[k].name) /\ ~SupportedName(es[k].name)}

CorruptEntries(es) ==
    {k \in DOMAIN es : /\ ~IsDirectoryName(es[k].name)
                       /\ SupportedName(es[k].name)
                       /\ ~es[k].readable}

\* every entry that is not a directory is of one of the three kinds
OfThreeKinds(es) ==
    \A k \in DOMAIN es :
        \/ IsDirectoryName(es[k].name)
        \/ k \in ValidEntries(es) \cup UnsupportedEntries(es) \cup CorruptEntries(es)

\* C5: ZIP partial success: the import of an archive of v valid images, u
\* entries of unsupported extension and c corrupt entries of supported
\* extension reports imported = v, skipped = u and c errors, one per corrupt
\* entry.
C5_ZipPartialSuccess ==
    (/\ last.op = "import_zip"
     /\ last.archive.opens
     /\ ~last.raised
     /\ OfThreeKinds(last.archive.entries)) =>
        LET es == last.archive.entries
        IN  /\ last.imported = Cardinality(ValidEntries(es))
            /\ last.skipped = Cardinality(UnsupportedEntries(es))
            /\ Len(last.errors) = Cardinality(CorruptEntries(es))
            /\ {last.errors[k] : k \in DOMAIN last.errors}
                    = {es[k].name : k \in CorruptEntries(es)}

\* C6: import_zip of an archive that opens never raises: an entry that cannot
\* be read or admitted is named in errors and the summary is returned.
C6_EntryFailuresCollected ==
    (last.op = "import_zip" /\ last.archive.opens) =>
        /\ ~last.raised
        /\ \A k \in DOMAIN last.archive.entries :
                LET e == last.archive.entries[k]
                IN  (~IsDirectoryName(e.name) /\ SupportedName(e.name) /\ ~e.readable)
                        => \E j \in DOMAIN last.errors : last.errors[j] = e.name

\* C7: idempotent re-scan: a scan_local_folder of the folder that the call
\* before it scanned returns 0 and adds no row and no file.
C7_IdempotentRescan ==
    (last.op = "scan_local_folder" /\ last.rescan) =>
        /\ last.result = 0
        /\ ~last.grew

\* a folder whose files are in the catalog has been scanned again
C7_Witness ==
    /\ last.op = "scan_local_folder"
    /\ last.rescan
    /\ last.folder.exists
    /\ \E k \in DOMAIN last.folder.entries :
            /\ last.folder.entries[k].is_file
            /\ FindPhotoByPath(photos, last.folder.entries[k].name)

\* C8: source count integrity: the photo_count of every source get_sources
\* returns is get_photo_count of that source's id.
C8_SourceCounts ==
    \A s \in GetSources(photo_sources, photos) :
        s.photo_count = GetPhotoCount(photos, s.id)

\* after a delete or an import, a source has photos and another has none
C8_Witness ==
    /\ last.op \in {"delete_photo", "import_zip"}
    /\ \E s \in GetSources(photo_sources, photos) : s.photo_count > 0
    /\ \E s \in GetSources(photo_sources, photos) : s.photo_count = 0

\* C9: referential integrity: the source_id of every photo row is the id of
\* a photo_sources row, so add_photo with a source_id that names no source
\* creates no row.
C9_SourceReferences ==
    \A i \in DOMAIN photos : SourceExists(photos[i].source_id)

\* C10: no two photo rows have the same local_path, and add_photo does not
\* write over the original of a photo in the catalog.
C10_UniqueLocalPath ==
    /\ \A i, j \in DOMAIN photos :
            photos[i].local_path = photos[j].local_path => i = j
    /\ last.op = "add_photo" => ~last.clobbered

\* the time a photo is positioned by when created_at stands in for a null
\* taken_at
EffectiveTime(row) == IF row.taken_at # NULL THEN row.taken_at[1] ELSE row.created_at

\* C11: a non-random listing is newest first: by taken_at descending, with
\* created_at in the place of taken_at for every photo whose taken_at is
\* null.
C11_NewestFirst ==
    (last.op = "get_photos" /\ ~last.random) =>
        \A i, j \in DOMAIN last.rows :
            i < j => EffectiveTime(photos[last.rows[i]]) >= EffectiveTime(photos[last.rows[j]])

\* C12: get_thumbnail_path(id) finds nothing when id has no row or its
\* original is missing, whether or not a thumbnail file named for id exists.
C12_ThumbnailNeedsOriginal ==
    (/\ last.op = "get_thumbnail_path"
     /\ \/ ~HasPhoto(photos, last.id)
        \/ GetPhotoPath(photos, files, last.id) = NoPath) =>
        ~last.found

\* C13: decode failure never blocks admission: add_photo of bytes that do not
\* decode, under a filename with a supported extension, writes the file,
\* inserts the row with null width, height and taken_at, and returns the id.
C13_DecodeFailureAdmits ==
    (/\ last.op = "add_photo"
     /\ SupportedName(last.filename)
     /\ ~Decodable(last.data)
     /\ storage_ok) =>
        /\ last.id # NoId
        /\ HasPhoto(photos, last.id)
        /\ photos[last.id].width = NULL
        /\ photos[last.id].height = NULL
        /\ photos[last.id].taken_at = NULL
        /\ Exists(files, OriginalOf(photos, last.id))
        /\ files[OriginalOf(photos, last.id)] = last.data

\* bytes that do not decode were admitted
C13_Admitted ==
    /\ last.op = "add_photo"
    /\ ~Decodable(last.data)
    /\ last.id # NoId
    /\ photos[last.id].width = NULL
    /\ photos[last.id].taken_at = NULL

\* C14: import_zip of an archive without entries, or of zero bytes, returns
\* without raising and reports zero imported and zero errors.
C14_EmptyArchive ==
    (/\ last.op = "import_zip"
     /\ \/ last.archive.zero_bytes
        \/ last.archive.opens /\ last.archive.entries = <<>>) =>
        /\ ~last.raised
        /\ last.imported = 0
        /\ last.errors = <<>>

\* C15: POST /photos/upload answers 400 for a missing or misnamed field, for
\* an empty upload and for a non-empty file of unsupported extension; it
\* answers 500 only when saving an admissible photo fails.
C15_UploadBadRequest ==
    (last.op = "upload_view" /\ last.hub) =>
        /\ last.field # "file" => last.response.status = 400
        /\ (last.field = "file" /\ last.data = NoBytes) => last.response.status = 400
        /\ (last.field = "file" /\ last.data # NoBytes /\ ~SupportedName(last.filename))
                => last.response.status = 400
        /\ last.response.status = 500 =>
                /\ last.field = "file"
                /\ last.data # NoBytes
                /\ SupportedName(last.filename)
                /\ ~storage_ok

\* the requests of the HTTP views
ViewRequests == {"upload_view", "import_view", "list_view", "delete_view"}

\* C16: every failure response of a view has a JSON body with an error
\* field; no request ends in an exception that leaves the handler.
C16_ErrorBodies ==
    (last.op \in ViewRequests /\ last.response.status >= 400) =>
        /\ last.response.error
        /\ ~last.response.unhandled

\* C18: delete_photo(id) for an id without a row returns false, answered
\* with 404, and removes no row, no original and no thumbnail.
C18_DeleteAbsent ==
    [][(last'.op = "delete_view" /\ last'.hub /\ ~last'.existed) =>
            /\ last'.response = JsonError(404)
            /\ photos' = photos
            /\ files' = files
            /\ thumbs' = thumbs]_vars

\* an id without a row was deleted while photos and thumbnails were stored
C18_Witness ==
    /\ last.op = "delete_view"
    /\ last.hub
    /\ ~last.existed
    /\ photos # <<>>
    /\ thumbs # {}

\* C17: initialization is idempotent: every async_initialize, on a fresh or
\* an existing database, leaves exactly one source row 'imported' and one
\* 'local', and changes or removes no source row and no photo row.
C17_InitIdempotent ==
    [][last'.op = "async_initialize" =>
            /\ \A id \in {"imported", "local"} :
                    Cardinality({r \in photo_sources' : r.id = id}) = 1
            /\ photo_sources \subseteq photo_sources'
            /\ photos' = photos]_vars

\* async_initialize has run again on a database with sources and photos of
\* an earlier time
C17_Witness ==
    /\ last.op = "async_initialize"
    /\ photos # <<>>
    /\ \E r \in photo_sources : r.created_at < now

\* C19: add_photo rejects, without an id and without a change to the catalog
\* or the directories, a filename whose extension (in any letter case) is
\* not a supported one, and rejects no filename for its extension when the
\* extension is a supported one.
C19_ExtensionGate ==
    [][last'.op = "add_photo" =>
            /\ ~SupportedName(last'.filename) =>
                    /\ last'.id = NoId
                    /\ ~last'.raised
                    /\ photos' = photos
                    /\ files' = files
                    /\ thumbs' = thumbs
            /\ (SupportedName(last'.filename) /\ storage_ok) => last'.id # NoId]_vars

\* C20: catalog access is serialized: no two executor jobs are on the
\* connection at the same time, and an add_photo that has finished next to
\* other requests has its own row inserted and committed.
C20_SerializedCatalog ==
    /\ \A p, q \in Requests :
            (OnConnection(jobs[p]) /\ OnConnection(jobs[q])) => p = q
    /\ \A q \in Requests :
            (jobs[q].pc = "done" /\ jobs[q].kind = "insert") => q \in conn.committed

\* C21: thumbnails are generated lazily and cached: a request for a photo
\* with a decodable original and no thumbnail generates it, and every
\* request made while the thumbnail file exists returns that file without
\* generating.
C21_ThumbnailCached ==
    [][last'.op = "get_thumbnail_path" =>
            /\ last'.id \in thumbs =>
                    /\ last'.found
                    /\ ~last'.generated
                    /\ thumbs' = thumbs
            /\ (/\ last'.id \notin thumbs
                /\ GetPhotoPath(photos, files, last'.id) # NoPath
                /\ Decodable(files[GetPhotoPath(photos, files, last'.id)])
                /\ storage_ok) =>
                    /\ last'.generated
                    /\ last'.id \in thumbs']_vars

\* a thumbnail request was served from the cache
C21_Witness ==
    /\ last.op = "get_thumbnail_path"
    /\ last.found
    /\ ~last.generated

\* the entries of an archive that import_zip reports as errors, and the ones
\* it admits
FailsToRead(e) == ~IsDirectoryName(e.name) /\ SupportedName(e.name) /\ ~e.readable

IsAdmitted(e) ==
    /\ ~IsDirectoryName(e.name)
    /\ SupportedName(e.name)
    /\ e.readable
    /\ SupportedName(SanitizeFilename(BaseName(e.name)))

\* C22: import_zip works in archive order: photo_ids are the ids of the
\* first 10 imported entries (all of them when there are fewer), in archive
\* order, and errors are the failing entries in archive order.
C22_ArchiveOrder ==
    (last.op = "import_zip" /\ last.archive.opens /\ ~last.raised) =>
        LET failing == SelectSeq(last.archive.entries, FailsToRead)
            admitted == SelectSeq(last.archive.entries, IsAdmitted)
            ids == last.photo_ids
        IN  /\ last.errors = [k \in DOMAIN failing |-> failing[k].name]
            /\ Len(ids) = Min(10, Len(admitted))
            /\ \A i, j \in DOMAIN ids : i < j => ids[i].tail < ids[j].tail
            /\ \A i \in DOMAIN ids :
                    HasPhoto(photos, ids[i]) =>
                        photos[ids[i]].filename = BaseName(admitted[i].name)

\* more entries were imported than ids are returned
C22_Witness ==
    /\ last.op = "import_zip"
    /\ ~last.raised
    /\ last.imported > Len(last.photo_ids)
    /\ Len(last.photo_ids) > 1

\* C23: once a delete_photo(id) and a thumbnail request for the same id that
\* ran side by side have both returned, no thumbnail file of id exists and a
\* later thumbnail request for id finds nothing, whatever the order of their
\* steps.
C23_DeleteWinsRace ==
    (race.d = "done" /\ race.d_result /\ race.t = "done") =>
        /\ ~ThumbCached(thumbs, race.id)
        /\ ~GetThumbnailPath(photos, files, thumbs, race.id)

\* the photo was deleted and its thumbnail is there
C23_Orphan ==
    /\ race.d = "done"
    /\ race.d_result
    /\ race.t = "done"
    /\ ~HasPhoto(photos, race.id)
    /\ ThumbCached(thumbs, race.id)

\* C24: when several operations are begun side by side on a hub that is not
\* initialized, _init_database runs at most once, one connection is opened,
\* and every operation's job runs on that connection.
C24_InitializedOnce ==
    /\ boot.runs <= 1
    /\ boot.opened <= 1
    /\ \A q \in Starters : boot.pc[q] = "done" => boot.used[q] = 1

\* two operations ran their jobs on different connections
C24_TwoConnections ==
    \E q1, q2 \in Starters :
        /\ boot.pc[q1] = "done"
        /\ boot.pc[q2] = "done"
        /\ boot.used[q1] # boot.used[q2]

\* C25: at most 3 timers exist, each in a slot of 1..3 and no two in one
\* slot; start_timer called while all three slots are taken, completed
\* timers included, creates no timer and leaves the timers as they were.
C25_Slots ==
    /\ Size(timers) <= 3
    /\ \A i \in DOMAIN timers : timers[i].slot \in 1..3
    /\ \A i, j \in DOMAIN timers : timers[i].slot = timers[j].slot => i = j

C25_FullRefused ==
    [][(tcall'.op = "start_timer" /\ Size(timers) = 3) =>
            /\ tcall'.id = NoTimer
            /\ timers' = timers]_vars

RemovalOnTheWay(timer_id) ==
    \/ timer_id \in removals
    \/ \E k \in Tickers : ticks[k].pc = "sending" /\ timer_id \in ticks[k].completed_ids

\* C27: a tick suspended while sending to a device is not disrupted by a
\* start_timer or cancel_timer that adds or removes a timer meanwhile: its
\* loop goes on to the end, and removal is scheduled for every timer it
\* marked completed.
C27_TickNotDisrupted ==
    /\ \A k \in Tickers : ticks[k].ended # "raised"
    /\ \A i \in DOMAIN timers : timers[i].state = "completed" => RemovalOnTheWay(i)

\* a completed timer that no tick and no task will remove
C27_Stranded ==
    /\ \E k \in Tickers : ticks[k].ended = "raised"
    /\ \E i \in DOMAIN timers : timers[i].state = "completed" /\ ~RemovalOnTheWay(i)

\* what becomes of a timer: counting down, held, or removed from the dict
\* with hideTimer sent for it
IsActive(timer_id) == timer_id \in DOMAIN timers /\ timers[timer_id].state = "active"

IsPaused(timer_id) == timer_id \in DOMAIN timers /\ timers[timer_id].state = "paused"

IsRemoved(timer_id) ==
    /\ timer_id <= timer_uuid
    /\ timer_id \notin DOMAIN timers
    /\ timer_id \in hidden

\* C26: while ticks keep firing, every active timer that is not paused or
\* cancelled comes to be completed and is then removed from the timers, with
\* hideTimer sent for it and its slot given up, whatever calls are made for
\* other timers meanwhile.
C26_TimerLiveness ==
    \A timer_id \in 1..MaxTimerIds :
        IsActive(timer_id) ~> (IsRemoved(timer_id) \/ IsPaused(timer_id))

\* the timer a pause_timer call was made for, and the timers that a step keeps
PauseOf(timer_id) ==
    /\ tcall'.op = "pause_timer"
    /\ tcall'.id = timer_id
    /\ timer_id \in DOMAIN timers

Kept == DOMAIN timers \cap DOMAIN timers'

\* C28: pause_timer on an active timer records its remaining seconds and
\* makes it paused; a paused timer keeps its remaining time and no tick
\* completes it; pause_timer on a paused timer makes it active again with
\* exactly the recorded time remaining; the remaining time of a timer never
\* grows; pause_timer on a completed timer changes nothing.
C28_PauseResume ==
    [][\A timer_id \in 1..MaxTimerIds :
            /\ (PauseOf(timer_id) /\ timers[timer_id].state = "active") =>
                    /\ timers'[timer_id].state = "paused"
                    /\ timers'[timer_id].remaining_seconds =
                            CalculateRemaining(timers[timer_id])
            /\ (PauseOf(timer_id) /\ timers[timer_id].state = "paused") =>
                    /\ timers'[timer_id].state = "active"
                    /\ CalculateRemaining(timers'[timer_id]) =
                            timers[timer_id].remaining_seconds
            /\ (PauseOf(timer_id) /\ timers[timer_id].state = "completed") =>
                    timers' = timers
            /\ (IsPaused(timer_id) /\ timer_id \in Kept /\ ~PauseOf(timer_id)) =>
                    /\ timers'[timer_id].state = "paused"
                    /\ timers'[timer_id].remaining_seconds =
                            timers[timer_id].remaining_seconds
            /\ timer_id \in Kept =>
                    CalculateRemaining(timers'[timer_id]) <=
                            CalculateRemaining(timers[timer_id])]_vars

\* a timer resumed by pause_timer with nothing left of its time
C28_Witness ==
    /\ tcall.op = "pause_timer"
    /\ tcall.id # NoTimer
    /\ tcall.id \in DOMAIN timers
    /\ timers[tcall.id].state = "active"
    /\ timers[tcall.id].duration_seconds = 0

\* C29: after k polls have failed in a row (k >= 1) the polling interval is
\* 15 s for k <= 4, 30 s for 5 <= k <= 12 and 120 s for k >= 13; a poll that
\* succeeds puts the failure count back to 0 and the interval back to the
\* default scan interval.
C29_BackoffSchedule ==
    /\ poll.streak >= 1 =>
            update_interval = IF poll.streak <= 4 THEN 15
                              ELSE IF poll.streak <= 12 THEN 30
                              ELSE 120
    /\ poll.outcome = "success" =>
            /\ consecutive_failures = 0
            /\ update_interval = DEFAULT_SCAN_INTERVAL

\* the 13th failure in a row has happened
C29_Witness ==
    /\ poll.streak = 13
    /\ update_interval = 120

\* C30: the media image endpoint never serves a file whose resolved path is
\* outside the resolved media base directory, whatever the folder and the
\* filename, ".." segments and a sibling directory whose name begins with the
\* base directory's name included: such a request gets an error.
C30_MediaContainment ==
    mlast.op = "media_image" =>
        \/ mlast.status # 200 /\ mlast.served = NoPath
        \/ IsUnder(mlast.served, MEDIA_DIR)

\* a file of the sibling directory was served
C30_SiblingServed ==
    /\ mlast.op = "media_image"
    /\ mlast.status = 200
    /\ mlast.served = Resolve(Join(SIBLING_DIR, <<"a", ".", "jpg">>))

====
